---- MODULE Spec2Model ----
(***************************************************************************)
(* DailyVCSWebRenderer (src/src/VCSWebRenderer.ts): the video-input        *)
(* reconciliation of a call roster onto the renderer's video slots.        *)
(*                                                                         *)
(* Conventions.  `undefined` is 0 for a track, an element and the          *)
(* participant allow-list is the record NoList; a MediaStreamTrack is its  *)
(* id (a number in 1..NumTracks); an HTMLVideoElement is its identity (a   *)
(* record), and the root element's children are the sequence `dom`.        *)
(***************************************************************************)
EXTENDS Naturals, Sequences, FiniteSets, TLC

\* ---------------------------------------------------------------- bounds
\* number of remote participants that may join the call
NumRemotes == 1
\* number of distinct media tracks a participant can publish
NumTracks == 2
\* number of start() calls
MaxStarts == 1
\* updateImageSources calls awaiting their probes at one time
MaxLoading == 2
\* number of renderer startups where the renderer is stopped and started again
MaxRestarts == 2
\* video elements in rootEl beyond which an allow-list naming an id twice, which
\* leaves elements behind on every pass, is not followed further
MaxElements == 4
\* a call already under way when the renderer is constructed: the participants
\* in it besides the local one, each with a camera and a screen share
CrowdSize == 10
\* the maxVideoInputSlots options tried besides the default: one below
\* MAX_VIDEO_INPUT_SLOTS, one above
SmallCapacity == 2
LargeCapacity == 22

\* ------------------------------------------------------ program constants
MAX_VIDEO_INPUT_SLOTS == 20

NoTrack == 0
NoElement == [vid |-> "", n |-> 0]

\* ------------------------------------------------------------ the roster
LocalSessionId == "L"
RemoteNames == <<"R1", "R2", "R3">>
Remotes == {RemoteNames[i] : i \in 1..NumRemotes}
SessionIds == {LocalSessionId} \cup Remotes

CrowdNames == <<"G01", "G02", "G03", "G04", "G05", "G06", "G07", "G08", "G09",
                "G10", "G11", "G12">>

Tracks == 1..NumTracks

\* A track entry of a participant (DailyParticipant.tracks[name]): its
\* liveness state, persistentTrack and off.byUser.
TrackStates == {"off", "blocked", "sendable", "loading", "interrupted", "playable"}

Entry(state, track) ==
  [state |-> state, persistentTrack |-> track, byUser |-> (state = "off")]

\* A participant without the track entry (tracks[name] is undefined)
NoEntry == [state |-> "none", persistentTrack |-> NoTrack, byUser |-> FALSE]

\* The camera entries the call layer reports: a playable track, a track turned
\* off (still held, or released), and a track that is not subscribed.
CameraEntries ==
  {Entry("playable", t) : t \in Tracks} \cup {Entry("off", t) : t \in Tracks}
    \cup {Entry("off", NoTrack), Entry("sendable", NoTrack)}

ScreenEntries == {Entry("off", NoTrack), Entry("playable", 1)}

UserNames == {"", "Ann"}

Participant(id, name, cam, scr) ==
  [session_id |-> id, user_name |-> name, participantType |-> "",
   video |-> cam, screenVideo |-> scr]

\* ------------------------------------------------------- pure functions
isTrackOffOnlyOff(state) == state = "off"

\* ['off', 'blocked'].includes(state)
isTrackOff(state) == state \in {"off", "blocked"}

makeVideoIdForVcs(p, isScreenshare) ==
  p.session_id \o (IF isScreenshare THEN "_sshare" ELSE "")

TrackOf(p, trackName) ==
  IF trackName = "screenVideo" THEN p.screenVideo ELSE p.video

createVideoInputObject(p, dominant, trackName) ==
  LET t == TrackOf(p, trackName)
      isScreenshare == trackName = "screenVideo"
  IN [id |-> makeVideoIdForVcs(p, isScreenshare),
      type |-> IF isScreenshare THEN "screenshare" ELSE "camera",
      displayName |-> IF isScreenshare THEN ""
                      ELSE IF p.user_name # "" THEN p.user_name ELSE "Guest",
      dominant |-> dominant,
      paused |-> IF t = NoEntry THEN FALSE ELSE isTrackOff(t.state),
      pausedByUser |-> t.byUser,
      track |-> t.persistentTrack,
      element |-> NoElement]

\* ---------------------------------------------------- sequence helpers
RECURSIVE IndexOfId(_, _, _)
\* Array.prototype.find by id: the first index at or after i, 0 when none
IndexOfId(s, id, i) ==
  IF i > Len(s) THEN 0
  ELSE IF s[i].id = id THEN i
  ELSE IndexOfId(s, id, i + 1)

RECURSIVE IndexOfSession(_, _, _)
\* participants[id]: the index of the participant with that session id, 0 when none
IndexOfSession(ps, id, i) ==
  IF i > Len(ps) THEN 0
  ELSE IF ps[i].session_id = id THEN i
  ELSE IndexOfSession(ps, id, i + 1)

RemoveAt(s, i) == SubSeq(s, 1, i - 1) \o SubSeq(s, i + 1, Len(s))

Ids(s) == {s[i].id : i \in 1..Len(s)}

Range(s) == {s[i] : i \in 1..Len(s)}

Min(S) == CHOOSE n \in S : \A m \in S : n <= m

\* ------------------------------------------------------------- the DOM
\* rootEl.querySelector(`[data-video-id="${vid}"]`): the first child carrying
\* the id, 0 when none
RECURSIVE querySelector(_, _, _)
querySelector(d, vid, i) ==
  IF i > Len(d) THEN 0
  ELSE IF d[i].vid = vid THEN i
  ELSE querySelector(d, vid, i + 1)

\* document.createElement('video') for the video id it is about to be tagged
\* with: an element distinct from every element in use (a child of the root
\* or referenced by a slot)
createElement(used, vid) ==
  LET taken == {e.n : e \in {u \in used : u.vid = vid}}
  IN [vid |-> vid, n |-> Min((1..(Cardinality(taken) + 1)) \ taken)]

ElementsOf(d, ss) ==
  {d[i].el : i \in 1..Len(d)} \cup {ss[i].element : i \in 1..Len(ss)}

\* -------------------------------------------------- applyTracks, the loop
DomOp(acc, op, id) ==
  [acc EXCEPT !.domOps = Append(@, [op |-> op, id |-> id])]

SkipVideoKeepsAnyPaused(video, kn, includePaused) ==
  video.track = NoTrack /\ ~includePaused

\* the skip rule: a video without a track is kept only as the paused
\* placeholder of a camera that was displayed before
SkipVideo(video, kn, includePaused) ==
  /\ video.track = NoTrack
  /\ ~(includePaused /\ video.type # "screenshare" /\ video.id \in kn)

\* RebindStream leaving the old track in the stream
RebindStreamKeepsOld(srcObject, oldTrack, newTrack) == srcObject \cup {newTrack}

\* srcObject.removeTrack(prevSlot.track) when there is one, then
\* srcObject.addTrack(video.track)
RebindStream(srcObject, oldTrack, newTrack) ==
  (IF oldTrack # NoTrack THEN srcObject \ {oldTrack} ELSE srcObject) \cup {newTrack}

\* the previous slot is the local participant's camera
LocalSlot(acc, video, prevSlot) ==
  IF video.track # NoTrack /\ video.track # prevSlot.track THEN
    LET pushed == [acc EXCEPT !.newSlots =
                      Append(@, [prevSlot EXCEPT !.track = video.track])]
        ei == querySelector(acc.dom, video.id, 1)
    IN IF ei = 0 THEN pushed
       ELSE DomOp([pushed EXCEPT !.dom[ei].srcObject =
                     RebindStream(@, prevSlot.track, video.track)],
                  "rebind", video.id)
  ELSE acc

\* the previous slot is any other input
OtherSlot(acc, video, prevSlot) ==
  IF prevSlot.track = video.track THEN
    [acc EXCEPT !.newSlots =
       Append(@, [prevSlot EXCEPT !.dominant = video.dominant,
                                  !.paused = video.paused,
                                  !.displayName = video.displayName])]
  ELSE acc

\* no previous slot carries the video's id
NewSlot(acc, video, prevSlots) ==
  LET el == createElement(ElementsOf(acc.dom, prevSlots \o acc.newSlots), video.id)
      withEl == video.track # NoTrack
  IN [newSlots |-> Append(acc.newSlots,
                     [video EXCEPT !.element = IF withEl THEN el ELSE NoElement]),
      known |-> IF video.type = "screenshare" THEN acc.known
                ELSE acc.known \cup {video.id},
      dom |-> IF withEl
              THEN Append(acc.dom, [el |-> el, vid |-> video.id,
                                    srcObject |-> {video.track}])
              ELSE acc.dom,
      domOps |-> IF withEl
                 THEN Append(acc.domOps, [op |-> "create", id |-> video.id])
                 ELSE acc.domOps]

\* One iteration of `for (const video of videos)`.  acc holds newSlots, the
\* known camera ids, the root's children and the operations made on them.
ApplyVideo(acc, video, prevSlots, includePaused) ==
  LET pi == IndexOfId(prevSlots, video.id, 1) IN
  IF SkipVideo(video, acc.known, includePaused) THEN acc
  ELSE IF pi # 0 THEN
    IF LocalSessionId = prevSlots[pi].id
    THEN LocalSlot(acc, video, prevSlots[pi])
    ELSE OtherSlot(acc, video, prevSlots[pi])
  ELSE NewSlot(acc, video, prevSlots)

RECURSIVE ApplyLoop(_, _, _, _, _)
ApplyLoop(acc, videos, i, prevSlots, includePaused) ==
  IF i > Len(videos) THEN acc
  ELSE CHOOSE r \in {ApplyLoop(a, videos, i + 1, prevSlots, includePaused) :
                       a \in {ApplyVideo(acc, videos[i], prevSlots, includePaused)}} : TRUE

\* RemoveStale without the removal
RemoveStaleKeeps(acc, prevSlots, newSlots, i) == acc

\* prevSlots.filter(not in newSlots).forEach(remove its element): the root's
\* children afterwards and the removals made
RECURSIVE RemoveStale(_, _, _, _)
RemoveStale(acc, prevSlots, newSlots, i) ==
  IF i > Len(prevSlots) THEN acc
  ELSE
    LET ps == prevSlots[i]
        ei == querySelector(acc.dom, ps.id, 1)
    IN IF ps.id \in Ids(newSlots) \/ ei = 0
       THEN RemoveStale(acc, prevSlots, newSlots, i + 1)
       ELSE CHOOSE r \in {RemoveStale(a, prevSlots, newSlots, i + 1) :
                            a \in {[dom |-> RemoveAt(acc.dom, ei),
                                    domOps |-> Append(acc.domOps,
                                                 [op |-> "remove", id |-> ps.id])]}} : TRUE

\* DidChange blind to the display name
DidChangeNoName(newSlots, prevSlots) ==
  \/ Len(newSlots) # Len(prevSlots)
  \/ \E i \in 1..Len(newSlots) :
       \/ newSlots[i].id # prevSlots[i].id
       \/ newSlots[i].paused # prevSlots[i].paused
       \/ newSlots[i].dominant # prevSlots[i].dominant
       \/ newSlots[i].track # prevSlots[i].track

\* the positional comparison of the new slot list with the previous one
DidChange(newSlots, prevSlots) ==
  \/ Len(newSlots) # Len(prevSlots)
  \/ \E i \in 1..Len(newSlots) :
       \/ newSlots[i].id # prevSlots[i].id
       \/ newSlots[i].paused # prevSlots[i].paused
       \/ newSlots[i].dominant # prevSlots[i].dominant
       \/ newSlots[i].displayName # prevSlots[i].displayName
       \/ newSlots[i].track # prevSlots[i].track

\* ------------------------------------------------ the active-slot array
EmptyMarker == [active |-> FALSE]

\* setActiveVideoInput's value for one position
ActiveVideoInput(active, id, name, isScreenshare, paused, dominant) ==
  IF active
  THEN [active |-> TRUE, id |-> id,
        type |-> IF isScreenshare THEN "screenshare" ELSE "camera",
        displayName |-> IF isScreenshare THEN "" ELSE name,
        paused |-> paused, dominant |-> dominant]
  ELSE EmptyMarker

\* for (let i = 0; i < limit; i++) setActiveVideoInput(i, ...newSlots[i]), each
\* assignment being arr[i] = v on a JavaScript array (i counted from 0): the
\* positions below limit are rewritten, an array shorter than limit grows to
\* it, and the positions from limit on keep what they held
FillActive(arr, newSlots, limit) ==
  [i \in 1..(IF limit > Len(arr) THEN limit ELSE Len(arr)) |->
     IF i > limit THEN arr[i]
     ELSE IF i <= Len(newSlots)
     THEN ActiveVideoInput(TRUE, newSlots[i].id, newSlots[i].displayName,
                           newSlots[i].type = "screenshare",
                           newSlots[i].paused, newSlots[i].dominant)
     ELSE ActiveVideoInput(FALSE, "", "", FALSE, FALSE, FALSE)]

\* --------------------------------------------------------------- state
\* ------------------------------------------------------- image sources
\* A value of an image map: the URL string a caller passes, or the Image
\* element a probe created for it (img.src = url).
Url(u) == [kind |-> "string", src |-> u]
ImageOf(u) == [kind |-> "HTMLImageElement", src |-> u]

\* assetImages: {}
NoImages == [n \in {} |-> Url("")]

\* image names in the order Object.entries lists them
ImageNames == <<"a", "b">>

\* the maps callers pass as `images`
ImageBatches ==
  {NoImages,
   [n \in {"a"} |-> Url("u1")],
   [n \in {"a", "b"} |-> Url(IF n = "a" THEN "u2" ELSE "u1")]}

\* the values callers pass as mergeType; the last is outside the declared type
MergeTypes == {"merge", "replace", "blend"}

\* results.reduce(...): the map of the Image elements the probes loaded
LoadedImages(images) == [n \in DOMAIN images |-> ImageOf(images[n].src)]

\* {...a, ...b}
Spread(a, b) ==
  [n \in DOMAIN a \cup DOMAIN b |-> IF n \in DOMAIN b THEN b[n] ELSE a[n]]

CommittedFromNothing(prev, images, mergeType) ==
  IF mergeType \in {"merge", "replace"} THEN LoadedImages(images) ELSE prev

\* sources.assetImages after the try block of updateImageSources ran on the
\* loaded probes of a call
Committed(prev, images, mergeType) ==
  IF mergeType = "merge" THEN Spread(prev, LoadedImages(images))
  ELSE IF mergeType = "replace" THEN LoadedImages(images)
  ELSE prev

CaughtKeepsLoaded(prev, images, loaded) ==
  Spread(prev, [n \in loaded |-> ImageOf(images[n].src)])

\* sources.assetImages after the catch block of updateImageSources
Caught(prev, images, loaded) == prev

\* ------------------------------------------------------------- numbers
\* A JavaScript number that is not negative: the fraction n/d in lowest
\* terms, Infinity (1/0) or NaN (0/0).  Arithmetic on fractions is exact.
RECURSIVE Gcd(_, _)
Gcd(a, b) == IF b = 0 THEN a ELSE Gcd(b, a % b)

Num(n, d) ==
  IF n = 0 /\ d = 0 THEN [type |-> "number", n |-> 0, d |-> 0]
  ELSE [type |-> "number", n |-> n \div Gcd(n, d), d |-> d \div Gcd(n, d)]

Whole(k) == Num(k, 1)
Infinity == Num(1, 0)
NaN == Num(0, 0)
\* a field that was never assigned
Undefined == [type |-> "undefined", n |-> 0, d |-> 0]

IsNaN(a) == a.n = 0 /\ a.d = 0
IsFinite(a) == a.type = "number" /\ a.d # 0
IsInteger(a) == IsFinite(a) /\ a.d = 1
\* a / b and a * b
Div(a, b) == Num(a.n * b.d, a.d * b.n)
Mul(a, b) == Num(a.n * b.n, a.d * b.d)
\* a > b, a >= b, a <= b: false when either is NaN
Gt(a, b) == ~IsNaN(a) /\ ~IsNaN(b) /\ a.n * b.d > b.n * a.d
Ge(a, b) == ~IsNaN(a) /\ ~IsNaN(b) /\ a.n * b.d >= b.n * a.d
Le(a, b) == Ge(b, a)
Add(a, b) == Num(a.n * b.d + b.n * a.d, a.d * b.d)
\* Math.floor(a)
Floor(a) == IF a.d = 0 THEN a ELSE Whole(a.n \div a.d)
\* !a: zero and NaN
Falsy(a) == a.n = 0

\* the box getBoundingClientRect() measures on an element
Rect(width, height) == [width |-> width, height |-> height]
Size(w, h) == [w |-> w, h |-> h]
\* element.clientWidth, element.clientHeight: the box in whole pixels
clientWidth(element) == Floor(Add(element.width, Num(1, 2)))
clientHeight(element) == Floor(Add(element.height, Num(1, 2)))

calculateViewportSize(element, aspectRatio) ==
  IF Falsy(aspectRatio) THEN Size(Whole(0), Whole(0))
  ELSE LET width == element.width
           height == element.height
           originalAspectRatio == Div(width, height)
       IN IF Gt(originalAspectRatio, aspectRatio)
          THEN Size(Floor(Mul(height, aspectRatio)), height)
          ELSE Size(width, Floor(Div(width, aspectRatio)))

\* scaleFactor after recomputeOutputScaleFactor()
recomputeOutputScaleFactor(element, viewport, prev) ==
  LET displayW == clientWidth(element)
      displayH == clientHeight(element)
      asp == Div(viewport.w, viewport.h)
  IN IF Falsy(displayW) \/ Falsy(displayH) THEN prev
     ELSE IF Ge(asp, Whole(1)) THEN Div(displayW, viewport.w)
     ELSE Div(displayH, viewport.h)

\* ---------------------------------------------------------- parameters
\* A parameter map (Record<string, any>): its entries in insertion order,
\* which is the order Object.entries lists them in.
NoParams == <<>>

RECURSIVE IndexOfParam(_, _, _)
IndexOfParam(m, id, i) ==
  IF i > Len(m) THEN 0
  ELSE IF m[i].id = id THEN i
  ELSE IndexOfParam(m, id, i + 1)

HasParam(m, id) == IndexOfParam(m, id, 1) # 0
ParamOf(m, id) == m[IndexOfParam(m, id, 1)].value
ParamIds(m) == {m[i].id : i \in 1..Len(m)}

\* m[id] = value
SetParam(m, id, value) ==
  LET k == IndexOfParam(m, id, 1)
  IN IF k = 0 THEN Append(m, [id |-> id, value |-> value])
     ELSE [m EXCEPT ![k].value = value]

RECURSIVE SpreadParams(_, _)
\* {...a, ...b}
SpreadParams(a, b) ==
  IF b = <<>> THEN a
  ELSE SpreadParams(SetParam(a, Head(b).id, Head(b).value), Tail(b))

\* a call on the renderer handle or a notification, with what it was handed;
\* the map is the one the notification's argument holds when it is invoked
ParamEvent(op, id, value, params) ==
  [op |-> op, id |-> id, value |-> value, params |-> params]

\* sendParam(paramId, value) on the accumulated map and the events so far
sendParam(acc, paramId, value, hasApi) ==
  [paramValues |-> SetParam(acc.paramValues, paramId, value),
   log |-> IF hasApi
           THEN acc.log \o <<ParamEvent("setParamValue", paramId, value, NoParams),
                             ParamEvent("onParamsChanged", paramId, value,
                                        acc.paramValues)>>
           ELSE acc.log]

RECURSIVE SendEach(_, _, _)
\* Object.entries(params).forEach(([id, value]) => this.sendParam(id, value))
SendEach(acc, params, hasApi) ==
  IF params = <<>> THEN acc
  ELSE CHOOSE r \in {SendEach(a, Tail(params), hasApi) :
                       a \in {sendParam(acc, Head(params).id, Head(params).value,
                                        hasApi)}} : TRUE

sendParamsKeepsOnReplace(prev, params, mergeType, hasApi) ==
  SendEach([paramValues |-> prev, log |-> <<>>], params, hasApi)

\* sendParams(params, mergeType)
sendParams(prev, params, mergeType, hasApi) ==
  SendEach([paramValues |-> IF mergeType = "replace" THEN NoParams ELSE prev,
            log |-> <<>>],
           params, hasApi)


VARIABLES
  roster,                \* callObject.participants(), local first, then in join order
  activeSpeaker,         \* callObject.getActiveSpeaker().peerId, "" when none
  participantIds,        \* the allow-list: [isArray, ids]
  includePausedVideo,
  maxVideoInputSlots,
  videoSlots,            \* sources.videoSlots
  known,                 \* knownNonScreenshareVideoInputIds
  dom,                   \* the video elements placed in rootEl, in document order
  activeVideoInputSlots,
  vcsState,
  vcsApi,                \* TRUE once the renderer handle exists
  listeners,             \* handlers registered per roster event of the call object
  starting,              \* start() calls awaiting comp.startDOMOutputAsync
  starts,                \* start() calls made so far
  startupSizes,          \* the viewport sizes those awaited calls were given
  outputSize,            \* the viewport size the renderer handle was started with
  stopCalled,            \* stop() was called and start() has not been since
  handleStopped,         \* stop() was called on the renderer handle
  assetImages,           \* sources.assetImages: image name -> committed value
  loading,               \* updateImageSources calls awaiting their probes
  resizeObserver,        \* TRUE while the field holds an observer
  observers,             \* resize observers connected to rootEl
  paramValues,           \* the parameters recorded for replay
  defaultParams,         \* opts.defaultParams
  rootEl,                \* the box the root element is measured to have
  aspectRatio,
  viewportSize,
  scaleFactor,
  given, returned,       \* a library function applied on its own: its
                         \* arguments and what it returned
  \* what the last action did
  domOps,                \* the video elements created, rebound and removed, in order
  calls,                 \* the calls made on the renderer handle, in order
  peers,                 \* the keys of the map handed to setRoomPeerDescriptionsById
  paramLog,              \* setParamValue calls and onParamsChanged notifications
  notes                  \* operation invoked, probes issued, startup calls,
                         \* console errors, notifications and promise outcomes

vars == <<roster, activeSpeaker, participantIds, includePausedVideo,
          maxVideoInputSlots, videoSlots, known, dom, activeVideoInputSlots,
          vcsState, vcsApi, listeners, starting, starts,
          startupSizes, outputSize, stopCalled, handleStopped,
          assetImages, loading, resizeObserver, observers,
          paramValues, defaultParams, rootEl, aspectRatio, viewportSize,
          scaleFactor, given, returned,
          domOps, calls, peers, paramLog, notes>>

imageVars == <<assetImages, loading>>
observerVars == <<resizeObserver, observers>>
\* what only start(), stop() and the renderer's startup assign
runVars == <<startupSizes, outputSize, stopCalled, handleStopped>>
\* what no method of a constructed renderer assigns
fixedVars == <<defaultParams, given, returned>>

Note(kind, arg) == [kind |-> kind, arg |-> arg]

NoList == [isArray |-> FALSE, ids |-> <<>>]

\* an action that sends no parameter
NoParamSent ==
  /\ paramLog' = <<>>
  /\ UNCHANGED paramValues

\* an action that neither measures the root element nor sizes the viewport
SameSizing == UNCHANGED <<rootEl, aspectRatio, viewportSize, scaleFactor>>

\* no library function is applied on its own
NoApplication ==
  /\ given = <<>>
  /\ returned = <<>>

\* ------------------------------------------ handleParticipantsChange
RECURSIVE FilterByIds(_, _, _)
\* participantIds.map((id) => participants[id]).filter(Boolean)
FilterByIds(ids, ps, i) ==
  IF i > Len(ids) THEN <<>>
  ELSE LET k == IndexOfSession(ps, ids[i], 1)
       IN (IF k = 0 THEN <<>> ELSE <<ps[k]>>) \o FilterByIds(ids, ps, i + 1)

filteredParticipants(ps, allow) ==
  IF allow.isArray THEN FilterByIds(allow.ids, ps, 1) ELSE ps

\* one participant of the loop over filteredParticipants
CollectOne(acc, p, speaker, includePaused) ==
  LET dominant == p.session_id = speaker IN
  IF p.participantType = "remote-media-player"
  THEN [acc EXCEPT !.videos =
          Append(@, createVideoInputObject(p, dominant, "rmpVideo"))]
  ELSE [videos |->
          IF includePaused \/ ~isTrackOff(p.video.state)
          THEN Append(acc.videos, createVideoInputObject(p, dominant, "video"))
          ELSE acc.videos,
        screens |->
          IF includePaused \/ ~isTrackOff(p.screenVideo.state)
          THEN Append(acc.screens, createVideoInputObject(p, dominant, "screenVideo"))
          ELSE acc.screens]

RECURSIVE CollectInputs(_, _, _, _, _)
\* the loop over filteredParticipants: [videos, screens]
CollectInputs(fp, speaker, includePaused, i, acc) ==
  IF i > Len(fp) THEN acc
  ELSE CHOOSE r \in {CollectInputs(fp, speaker, includePaused, i + 1, a) :
                       a \in {CollectOne(acc, fp[i], speaker, includePaused)}} : TRUE

RECURSIVE Dedupe(_, _)
\* [...new Set(ids)]: the first occurrence of each id, in order
Dedupe(ids, seen) ==
  IF ids = <<>> THEN <<>>
  ELSE IF Head(ids) \in seen THEN Dedupe(Tail(ids), seen)
  ELSE <<Head(ids)>> \o Dedupe(Tail(ids), seen \cup {Head(ids)})

PeerKeysOfRoster(ps, allow) == [i \in 1..Len(ps) |-> ps[i].session_id]

\* The keys of the map `peers` after the loop over filteredParticipants, in
\* insertion order: peers.set(p.session_id, ...) keeps one entry per key.
PeerKeys(ps, allow) ==
  LET fp == filteredParticipants(ps, allow)
  IN Dedupe([i \in 1..Len(fp) |-> fp[i].session_id], {})

\* the argument handleParticipantsChange passes to applyTracks
VideoInputs(ps, speaker, allow, includePaused) ==
  LET r == CollectInputs(filteredParticipants(ps, allow), speaker, includePaused, 1,
                         [videos |-> <<>>, screens |-> <<>>])
  IN r.videos \o r.screens

\* ----------------------------------------------------------- applyTracks
\* The whole of applyTracks on the renderer's fields: the fields afterwards,
\* what was created and removed, and the renderer calls it makes.
applyTracks(videos, slots, kn, d, arr, includePaused, hasApi) ==
  CHOOSE result \in
    {LET newSlots == looped.newSlots IN
     CHOOSE res \in
       {LET didChange == DidChange(newSlots, slots) IN
        [videoSlots |-> IF didChange THEN newSlots ELSE slots,
         newSlots |-> newSlots,
         known |-> looped.known,
         dom |-> swept.dom,
         domOps |-> swept.domOps,
         didChange |-> didChange,
         active |-> IF didChange
                    THEN FillActive(arr, newSlots, MAX_VIDEO_INPUT_SLOTS)
                    ELSE arr,
         calls |-> IF didChange /\ hasApi
                   THEN <<"updateImageSources", "setActiveVideoInputSlots",
                          "setScaleFactor">>
                   ELSE <<>>] :
        swept \in {RemoveStale([dom |-> looped.dom, domOps |-> looped.domOps],
                               slots, newSlots, 1)}} : TRUE :
     looped \in {ApplyLoop([newSlots |-> <<>>, known |-> kn, dom |-> d,
                            domOps |-> <<>>],
                           videos, 1, slots, includePaused)}} : TRUE

\* ------------------------------------------------------------ actions
\* opts.viewportSize ?? { w: 1280, h: 720 }
DefaultViewport == Size(Whole(1280), Whole(720))
\* no renderer has been started
NoOutput == Size(Undefined, Undefined)
\* a root element laid out at the default viewport's size
DefaultRoot == Rect(Whole(1280), Whole(720))

\* What the constructor makes of the root element and of opts.aspectRatio and
\* opts.defaultParams (Undefined and NoParams when not given).
ConstructedOn(element, ratio, params) ==
  /\ rootEl = element
  /\ aspectRatio = (IF ratio = Undefined \/ Falsy(ratio) THEN Undefined ELSE ratio)
  /\ viewportSize = (IF ratio = Undefined \/ Falsy(ratio) THEN DefaultViewport
                     ELSE calculateViewportSize(element, ratio))
  /\ defaultParams = params
  /\ paramValues = NoParams
  /\ scaleFactor = recomputeOutputScaleFactor(element, viewportSize, Undefined)
  /\ peers = <<>>
  /\ paramLog = <<>>

\* What the constructor makes of opts.maxVideoInputSlots,
\* opts.includePausedVideo and opts.participantIds.
ConstructedFor(maxSlots, includePaused, allow) ==
  /\ participantIds = allow
  /\ includePausedVideo = includePaused
  /\ maxVideoInputSlots = maxSlots
  /\ videoSlots = <<>>
  /\ known = {}
  /\ dom = <<>>
  /\ activeVideoInputSlots = FillActive(<<>>, <<>>, maxSlots)
  /\ vcsState = "idle"
  /\ vcsApi = FALSE
  /\ listeners = 0
  /\ starting = 0
  /\ starts = 0
  /\ startupSizes = <<>>
  /\ outputSize = NoOutput
  /\ stopCalled = FALSE
  /\ handleStopped = FALSE
  /\ assetImages = NoImages
  /\ resizeObserver = FALSE
  /\ observers = 0
  /\ domOps = <<>>
  /\ calls = <<>>
  /\ notes = <<>>

\* The renderer as the constructor leaves it, given its options, on a root
\* element laid out at the default viewport's size.
Constructed(maxSlots, includePaused, allow) ==
  /\ ConstructedOn(DefaultRoot, Undefined, NoParams)
  /\ NoApplication
  /\ ConstructedFor(maxSlots, includePaused, allow)

\* the call before the renderer is constructed: the local participant alone
InitialRoster ==
  /\ roster = <<Participant(LocalSessionId, "", Entry("off", NoTrack),
                            Entry("off", NoTrack))>>
  /\ activeSpeaker = ""

\* constructed without opts.defaultAssets: no updateImageSources call is made
NoDefaultAssets == loading = <<>>

Init ==
  /\ InitialRoster
  /\ NoDefaultAssets
  /\ \E inc \in BOOLEAN : Constructed(MAX_VIDEO_INPUT_SLOTS, inc, NoList)

\* handleParticipantsChange on the roster ps and speaker sp with the renderer
\* handle present or not, followed by the renderer calls `after` of the same
\* handler
RunPassWith(ps, sp, allow, hasApi, after) ==
  \E r \in {applyTracks(VideoInputs(ps, sp, allow, includePausedVideo),
                         videoSlots, known, dom, activeVideoInputSlots,
                         includePausedVideo, hasApi)} :
     /\ videoSlots' = r.videoSlots
     /\ known' = r.known
     /\ dom' = r.dom
     /\ activeVideoInputSlots' = r.active
     /\ domOps' = r.domOps
     /\ calls' = r.calls \o <<"setRoomPeerDescriptionsById">> \o after
     /\ peers' = PeerKeys(ps, allow)

RunPass(ps, sp, hasApi, after) == RunPassWith(ps, sp, participantIds, hasApi, after)

\* The sizing after an action that may have run a pass: a pass that committed
\* a new slot list (didChange) ends with rootDisplaySizeChanged(), which
\* measures the root element again.
PassSizing ==
  /\ UNCHANGED <<rootEl, aspectRatio, viewportSize>>
  /\ scaleFactor' = IF videoSlots' # videoSlots
                    THEN recomputeOutputScaleFactor(rootEl, viewportSize, scaleFactor)
                    ELSE scaleFactor

\* NoPass of an action that, running no pass, yet cleared the known ids
NoPassForgetsKnown ==
  /\ UNCHANGED <<videoSlots, dom, activeVideoInputSlots>>
  /\ known' = {}
  /\ domOps' = <<>>
  /\ peers' = <<>>

\* an action that runs no reconciliation pass
NoPass ==
  /\ UNCHANGED <<videoSlots, known, dom, activeVideoInputSlots>>
  /\ domOps' = <<>>
  /\ peers' = <<>>

\* A roster event of the call object: the handlers registered by start() run,
\* each one pass; without a handler nothing runs.
Deliver(ps, sp) ==
  /\ roster' = ps
  /\ activeSpeaker' = sp
  /\ UNCHANGED <<participantIds, includePausedVideo, maxVideoInputSlots, fixedVars, runVars,
                 vcsState, vcsApi, listeners, starting, starts,
                 imageVars, observerVars>>
  /\ notes' = <<>>
  /\ NoParamSent
  /\ IF listeners > 0 THEN RunPass(ps, sp, vcsApi, <<>>)
     ELSE NoPass /\ calls' = <<>>
  /\ PassSizing

ParticipantJoined(id, name, cam, scr) ==
  /\ IndexOfSession(roster, id, 1) = 0
  /\ Deliver(Append(roster, Participant(id, name, cam, scr)), activeSpeaker)

ParticipantLeft(id) ==
  LET k == IndexOfSession(roster, id, 1)
  IN /\ k # 0
     /\ id # LocalSessionId
     /\ Deliver(RemoveAt(roster, k), activeSpeaker)

\* participant-updated with a new camera entry
VideoUpdated(id, cam) ==
  LET k == IndexOfSession(roster, id, 1)
  IN /\ k # 0
     /\ roster[k].video # cam
     /\ Deliver([roster EXCEPT ![k].video = cam], activeSpeaker)

\* participant-updated with a new screen-share entry
ScreenUpdated(id, scr) ==
  LET k == IndexOfSession(roster, id, 1)
  IN /\ k # 0
     /\ roster[k].screenVideo # scr
     /\ Deliver([roster EXCEPT ![k].screenVideo = scr], activeSpeaker)

\* participant-updated with a new user name
NameUpdated(id, name) ==
  LET k == IndexOfSession(roster, id, 1)
  IN /\ k # 0
     /\ roster[k].user_name # name
     /\ Deliver([roster EXCEPT ![k].user_name = name], activeSpeaker)

ActiveSpeakerChange(id) ==
  /\ id # activeSpeaker
  /\ Deliver(roster, id)

\* a roster event that leaves the roster as the last pass saw it (an update of
\* a field the projection does not read, or a further registered handler)
EventRepeated ==
  /\ listeners > 0
  /\ Deliver(roster, activeSpeaker)

\* start() up to its await of comp.startDOMOutputAsync, which it has called;
\* at most `limit` start() calls are made
StartCall(limit) ==
  /\ starts < limit
  /\ starts' = starts + 1
  /\ starting' = starting + 1
  /\ startupSizes' = Append(startupSizes, viewportSize)
  /\ stopCalled' = FALSE
  /\ calls' = <<>>
  /\ notes' = <<Note("call", "start"), Note("comp", "startDOMOutputAsync")>>
  /\ NoPass
  /\ NoParamSent
  /\ SameSizing
  /\ UNCHANGED <<roster, activeSpeaker, participantIds, includePausedVideo,
                 maxVideoInputSlots, fixedVars, outputSize, handleStopped,
                 vcsState, vcsApi, listeners, imageVars, observerVars>>

Start == StartCall(MaxStarts)

\* start() after the renderer's startup resolved.  The recorded parameters
\* and then the default ones are sent again.  The observer start() creates
\* replaces the one in the field, which stays connected.
StartResolved ==
  /\ starting > 0
  /\ starting' = starting - 1
  /\ \E i \in 1..Len(startupSizes) :
       /\ startupSizes' = RemoveAt(startupSizes, i)
       /\ outputSize' = startupSizes[i]
  /\ handleStopped' = FALSE
  /\ vcsApi' = TRUE
  /\ vcsState' = "started"
  /\ listeners' = listeners + 1
  /\ \E sent \in {sendParams(paramValues, SpreadParams(paramValues, defaultParams),
                              "merge", TRUE)} :
       /\ paramValues' = sent.paramValues
       /\ paramLog' = sent.log
       /\ RunPass(roster, activeSpeaker, TRUE,
                  <<"setActiveVideoInputSlots">>
                    \o [i \in 1..Len(sent.paramValues) |-> "setParamValue"]
                    \o <<"setScaleFactor">>)
  /\ scaleFactor' = recomputeOutputScaleFactor(rootEl, viewportSize, scaleFactor)
  /\ UNCHANGED <<rootEl, aspectRatio, viewportSize>>
  /\ notes' = <<Note("callback", "onStart")>>
  /\ resizeObserver' = TRUE
  /\ observers' = observers + 1
  /\ UNCHANGED <<roster, activeSpeaker, participantIds, includePausedVideo,
                 maxVideoInputSlots, fixedVars, stopCalled, starts, imageVars>>

\* start() when the renderer's startup rejects: the await throws, nothing
\* after it runs and the promise start() returned is rejected
StartRejectedStarted ==
  /\ starting > 0
  /\ starting' = starting - 1
  /\ \E i \in 1..Len(startupSizes) : startupSizes' = RemoveAt(startupSizes, i)
  /\ vcsState' = "started"
  /\ calls' = <<>>
  /\ notes' = <<Note("rejected", "start")>>
  /\ NoPass
  /\ NoParamSent
  /\ SameSizing
  /\ UNCHANGED <<roster, activeSpeaker, participantIds, includePausedVideo,
                 maxVideoInputSlots, fixedVars, outputSize, stopCalled,
                 handleStopped, vcsApi, listeners, starts, imageVars,
                 observerVars>>

StartRejected ==
  /\ starting > 0
  /\ starting' = starting - 1
  /\ \E i \in 1..Len(startupSizes) : startupSizes' = RemoveAt(startupSizes, i)
  /\ calls' = <<>>
  /\ notes' = <<Note("rejected", "start")>>
  /\ NoPass
  /\ NoParamSent
  /\ SameSizing
  /\ UNCHANGED <<roster, activeSpeaker, participantIds, includePausedVideo,
                 maxVideoInputSlots, fixedVars, outputSize, stopCalled,
                 handleStopped, vcsState, vcsApi, listeners, starts, imageVars,
                 observerVars>>

\* ------------------------------------------------- updateImageSources
\* updateImageSources(images, mergeType) up to its await: one probe per entry
UpdateImageSources(images, mergeType) ==
  /\ Len(loading) < MaxLoading
  /\ loading' = Append(loading, [images |-> images, mergeType |-> mergeType,
                                 loaded |-> {}])
  /\ notes' = <<Note("call", "updateImageSources")>>
                \o [k \in 1..Len(SelectSeq(ImageNames, LAMBDA n : n \in DOMAIN images))
                     |-> Note("probe", SelectSeq(ImageNames,
                                                 LAMBDA n : n \in DOMAIN images)[k])]
  /\ calls' = <<>>
  /\ NoPass
  /\ NoParamSent
  /\ SameSizing
  /\ UNCHANGED <<roster, activeSpeaker, participantIds, includePausedVideo,
                 maxVideoInputSlots, fixedVars, runVars, vcsState, vcsApi, listeners, starting,
                 starts, assetImages, observerVars>>

\* updateImageSources after Promise.all resolved, for the call loading[i]
Resolved(i) ==
  LET b == loading[i] IN
  /\ loading' = RemoveAt(loading, i)
  /\ assetImages' = Committed(assetImages, b.images, b.mergeType)
  /\ calls' = IF b.mergeType \in {"merge", "replace"} /\ vcsApi
              THEN <<"updateImageSources">> ELSE <<>>
  /\ notes' = (IF b.mergeType \in {"merge", "replace"} THEN <<>>
               ELSE <<Note("console.error", "Invalid mergeType")>>)
                \o <<Note("resolved", "updateImageSources")>>
  /\ NoPass
  /\ NoParamSent
  /\ SameSizing
  /\ UNCHANGED <<roster, activeSpeaker, participantIds, includePausedVideo,
                 maxVideoInputSlots, fixedVars, runVars, vcsState, vcsApi, listeners, starting,
                 starts, observerVars>>

\* img.onload of the probe for image n of the call loading[i]; with the last
\* probe Promise.all resolves and the call runs on
ProbeLoaded(i, n) ==
  /\ i \in 1..Len(loading)
  /\ n \in DOMAIN loading[i].images \ loading[i].loaded
  /\ IF loading[i].loaded \cup {n} = DOMAIN loading[i].images
     THEN Resolved(i)
     ELSE /\ loading' = [loading EXCEPT ![i].loaded = @ \cup {n}]
          /\ calls' = <<>>
          /\ notes' = <<>>
          /\ NoPass
          /\ NoParamSent
          /\ SameSizing
          /\ UNCHANGED <<roster, activeSpeaker, participantIds, includePausedVideo,
                         maxVideoInputSlots, fixedVars, runVars, vcsState, vcsApi, listeners, starting,
                         starts, assetImages, observerVars>>

\* a call without images: Promise.all([]) resolves with nothing to wait for
NothingToLoad(i) ==
  /\ i \in 1..Len(loading)
  /\ DOMAIN loading[i].images = {}
  /\ Resolved(i)

\* img.onerror of the probe for image n of the call loading[i]: Promise.all
\* rejects and the catch block runs.  What the call's other probes do later
\* reaches no field of the renderer.
ProbeFailed(i, n) ==
  /\ i \in 1..Len(loading)
  /\ n \in DOMAIN loading[i].images \ loading[i].loaded
  /\ loading' = RemoveAt(loading, i)
  /\ assetImages' = Caught(assetImages, loading[i].images, loading[i].loaded)
  /\ calls' = <<>>
  /\ notes' = <<Note("console.error", "Image load failed, asset " \o n),
                Note("console.error", "Error: Image load failed, asset " \o n),
                Note("resolved", "updateImageSources")>>
  /\ NoPass
  /\ NoParamSent
  /\ SameSizing
  /\ UNCHANGED <<roster, activeSpeaker, participantIds, includePausedVideo,
                 maxVideoInputSlots, fixedVars, runVars, vcsState, vcsApi, listeners, starting,
                 starts, observerVars>>

\* constructed with opts.defaultAssets: the constructor calls
\* updateImageSources(defaultAssets), whose probes are then under way
DefaultAssets(images) ==
  loading = <<[images |-> images, mergeType |-> "replace", loaded |-> {}]>>

InitImages ==
  /\ InitialRoster
  /\ NoDefaultAssets \/ \E images \in ImageBatches \ {NoImages} : DefaultAssets(images)
  /\ Constructed(MAX_VIDEO_INPUT_SLOTS, TRUE, NoList)

NextImages ==
  \/ \E images \in ImageBatches, mergeType \in MergeTypes :
       UpdateImageSources(images, mergeType)
  \/ \E i \in 1..MaxLoading, n \in Range(ImageNames) : ProbeLoaded(i, n)
  \/ \E i \in 1..MaxLoading, n \in Range(ImageNames) : ProbeFailed(i, n)
  \/ \E i \in 1..MaxLoading : NothingToLoad(i)
  \/ Start
  \/ StartResolved

SpecImages == InitImages /\ [][NextImages]_vars

\* ------------------------------------------------------------ lifecycle
StopKeepsObserver ==
  /\ notes' = <<Note("call", "stop")>>
                \o (IF vcsApi THEN <<Note("callback", "onStop")>> ELSE <<>>)
  /\ calls' = IF vcsApi THEN <<"stop">> ELSE <<>>
  /\ vcsState' = IF vcsApi THEN "stopped" ELSE vcsState
  /\ stopCalled' = TRUE
  /\ handleStopped' = (vcsApi \/ handleStopped)
  /\ UNCHANGED <<startupSizes, outputSize>>
  /\ NoPass
  /\ NoParamSent
  /\ SameSizing
  /\ UNCHANGED <<roster, activeSpeaker, participantIds, includePausedVideo,
                 maxVideoInputSlots, fixedVars, vcsApi, listeners, starting, starts,
                 imageVars, observerVars>>

\* stop().  removeEventListeners hands off() functions bound anew, which were
\* never registered, so the handlers stay registered.
Stop ==
  /\ notes' = <<Note("call", "stop")>>
                \o (IF vcsApi THEN <<Note("callback", "onStop")>> ELSE <<>>)
  /\ calls' = IF vcsApi THEN <<"stop">> ELSE <<>>
  /\ vcsState' = IF vcsApi THEN "stopped" ELSE vcsState
  /\ stopCalled' = TRUE
  /\ handleStopped' = (vcsApi \/ handleStopped)
  /\ UNCHANGED <<startupSizes, outputSize>>
  /\ resizeObserver' = IF vcsApi THEN FALSE ELSE resizeObserver
  /\ observers' = IF vcsApi /\ resizeObserver THEN observers - 1 ELSE observers
  /\ NoPass
  /\ NoParamSent
  /\ SameSizing
  /\ UNCHANGED <<roster, activeSpeaker, participantIds, includePausedVideo,
                 maxVideoInputSlots, fixedVars, vcsApi, listeners, starting, starts,
                 imageVars>>

Errors == {"e1", "e2"}

RendererErrorKeepsState(e) ==
  /\ vcsState \in {"started", "error"}
  /\ notes' = <<Note("console.error", "VCS composition error: " \o e),
                Note("onError", e)>>
  /\ calls' = <<>>
  /\ NoPass
  /\ NoParamSent
  /\ SameSizing
  /\ UNCHANGED <<roster, activeSpeaker, participantIds, includePausedVideo,
                 maxVideoInputSlots, fixedVars, runVars, vcsState, vcsApi, listeners, starting, starts,
                 imageVars, observerVars>>

\* The renderer calls errorCb, which start() handed to startDOMOutputAsync:
\* a renderer that was started and has not been stopped.
RendererError(e) ==
  /\ vcsState \in {"started", "error"}
  /\ vcsState' = "error"
  /\ notes' = <<Note("console.error", "VCS composition error: " \o e),
                Note("onError", e)>>
  /\ calls' = <<>>
  /\ NoPass
  /\ NoParamSent
  /\ SameSizing
  /\ UNCHANGED <<roster, activeSpeaker, participantIds, includePausedVideo,
                 maxVideoInputSlots, fixedVars, runVars, vcsApi, listeners, starting, starts,
                 imageVars, observerVars>>

\* updateAspectRatio(aspectRatio): while started, stop() and then start() up to
\* its await; at most `limit` start() calls are made
UpdateAspectRatio(ratio, limit) ==
  /\ aspectRatio' = ratio
  /\ viewportSize' = calculateViewportSize(rootEl, ratio)
  /\ UNCHANGED <<rootEl, scaleFactor>>
  /\ IF vcsState = "started"
     THEN /\ starts < limit
          /\ starts' = starts + 1
          /\ starting' = starting + 1
          /\ startupSizes' = Append(startupSizes, viewportSize')
          /\ stopCalled' = FALSE
          /\ handleStopped' = TRUE
          /\ UNCHANGED outputSize
          /\ vcsState' = "stopped"
          /\ calls' = <<"stop">>
          /\ resizeObserver' = FALSE
          /\ observers' = IF resizeObserver THEN observers - 1 ELSE observers
          /\ notes' = <<Note("call", "updateAspectRatio"), Note("callback", "onStop"),
                        Note("comp", "startDOMOutputAsync")>>
     ELSE /\ notes' = <<Note("call", "updateAspectRatio")>>
          /\ calls' = <<>>
          /\ UNCHANGED <<starts, starting, vcsState, observerVars, runVars>>
  /\ NoPass
  /\ NoParamSent
  /\ UNCHANGED <<roster, activeSpeaker, participantIds, includePausedVideo,
                 maxVideoInputSlots, fixedVars, vcsApi, listeners, imageVars>>

\* updateAspectRatio(16 / 9), the shape of the default viewport
UpdateAspectRatioCall(limit) == UpdateAspectRatio(Num(16, 9), limit)

\* the arrays callers pass as participantIds
AllowLists == {<<>>, <<"R1">>, <<LocalSessionId, "R1">>, <<"R1", "R1">>}

\* updateParticipantIds(ids, mergeType).  Spreading this.participantIds, which
\* is undefined unless an array was configured, throws before anything is set.
UpdateParticipantIds(ids, mergeType) ==
  IF mergeType = "merge" /\ ~participantIds.isArray
  THEN /\ notes' = <<Note("call", "updateParticipantIds"), Note("throw", "TypeError")>>
       /\ calls' = <<>>
       /\ NoPass
       /\ NoParamSent
       /\ SameSizing
       /\ UNCHANGED <<roster, activeSpeaker, participantIds, includePausedVideo,
                      maxVideoInputSlots, fixedVars, runVars, vcsState, vcsApi, listeners, starting,
                      starts, imageVars, observerVars>>
  ELSE \E new \in {[isArray |-> TRUE,
                     ids |-> IF mergeType = "merge"
                             THEN Dedupe(participantIds.ids \o ids, {})
                             ELSE ids]} :
         /\ participantIds' = new
         /\ notes' = <<Note("call", "updateParticipantIds")>>
         /\ NoParamSent
         /\ IF vcsState = "started"
            THEN RunPassWith(roster, activeSpeaker, new, vcsApi, <<>>)
            ELSE NoPass /\ calls' = <<>>
         /\ PassSizing
         /\ UNCHANGED <<roster, activeSpeaker, includePausedVideo,
                        maxVideoInputSlots, fixedVars, runVars, vcsState, vcsApi, listeners, starting,
                        starts, imageVars, observerVars>>

\* A renderer that is stopped, started again and fails, in a call where the
\* local participant's camera goes on and off and one remote comes and goes.
InitLifecycle ==
  /\ InitialRoster
  /\ NoDefaultAssets
  /\ Constructed(MAX_VIDEO_INPUT_SLOTS, TRUE, NoList)

NextLifecycle ==
  \/ StartCall(MaxRestarts)
  \/ StartResolved
  \/ StartRejected
  \/ Stop
  \/ \E e \in Errors : RendererError(e)
  \/ UpdateAspectRatioCall(MaxRestarts)
  \/ \E id \in Remotes :
       ParticipantJoined(id, "Ann", Entry("playable", 1), Entry("off", NoTrack))
  \/ \E id \in Remotes : ParticipantLeft(id)
  \/ \E cam \in {Entry("playable", 1), Entry("off", NoTrack)} :
       VideoUpdated(LocalSessionId, cam)
  \/ EventRepeated

SpecLifecycle == InitLifecycle /\ [][NextLifecycle]_vars

\* A renderer whose allow-list is configured and changed, in a call where the
\* local participant's camera goes on and off and one remote comes and goes.
InitAllowList ==
  /\ InitialRoster
  /\ NoDefaultAssets
  /\ \E allow \in {NoList, [isArray |-> TRUE, ids |-> <<"R1">>]} :
       Constructed(MAX_VIDEO_INPUT_SLOTS, TRUE, allow)

\* rootEl holds no more than MaxElements video elements
FewElements == Len(dom) <= MaxElements

NextAllowList ==
  \/ \E ids \in AllowLists, mergeType \in {"merge", "replace"} :
       FewElements /\ UpdateParticipantIds(ids, mergeType)
  \/ \E id \in Remotes :
       FewElements
         /\ ParticipantJoined(id, "Ann", Entry("playable", 1), Entry("off", NoTrack))
  \/ \E id \in Remotes : FewElements /\ ParticipantLeft(id)
  \/ \E cam \in {Entry("playable", 1), Entry("off", NoTrack)} :
       FewElements /\ VideoUpdated(LocalSessionId, cam)
  \/ Start
  \/ StartResolved

SpecAllowList == InitAllowList /\ [][NextAllowList]_vars

\* In Spec the renderer is started and never stopped: stop() touches no field
\* a pass reads.
Next ==
  \/ \E id \in Remotes, name \in UserNames, cam \in CameraEntries, scr \in ScreenEntries :
       ParticipantJoined(id, name, cam, scr)
  \/ \E id \in Remotes : ParticipantLeft(id)
  \/ \E id \in SessionIds, cam \in CameraEntries : VideoUpdated(id, cam)
  \/ \E id \in Remotes, scr \in ScreenEntries : ScreenUpdated(id, scr)
  \/ \E id \in SessionIds, name \in UserNames : NameUpdated(id, name)
  \/ \E id \in SessionIds \cup {""} : ActiveSpeakerChange(id)
  \/ EventRepeated
  \/ Start
  \/ StartResolved

Spec == Init /\ [][Next]_vars

\* ------------------------------------------- a crowded call, any capacity
\* The renderer is constructed with a maxVideoInputSlots option in a call
\* that already has CrowdSize remote participants publishing a camera and a
\* screen share; these stay as they are while the local participant and the
\* remotes of Remotes come, go and change.
CrowdRoster ==
  <<Participant(LocalSessionId, "", Entry("off", NoTrack), Entry("off", NoTrack))>>
    \o [i \in 1..CrowdSize |->
         Participant(CrowdNames[i], "Guy", Entry("playable", 1), Entry("playable", 1))]

InitCapacity ==
  /\ roster = CrowdRoster
  /\ activeSpeaker = ""
  /\ NoDefaultAssets
  /\ \E m \in {SmallCapacity, MAX_VIDEO_INPUT_SLOTS, LargeCapacity} :
       Constructed(m, TRUE, NoList)

NextCapacity ==
  \/ \E id \in Remotes :
       ParticipantJoined(id, "Ann", Entry("playable", 1), Entry("off", NoTrack))
  \/ \E id \in Remotes : ParticipantLeft(id)
  \/ \E cam \in {Entry("playable", 1), Entry("off", NoTrack)} :
       VideoUpdated(LocalSessionId, cam)
  \/ \E id \in {"", CrowdNames[1]} : ActiveSpeakerChange(id)
  \/ EventRepeated
  \/ Start
  \/ StartResolved

SpecCapacity == InitCapacity /\ [][NextCapacity]_vars

\* ------------------------------------------------------- parameters sent
\* sendParam(paramId, value)
SendParam(paramId, value) ==
  \E sent \in {sendParam([paramValues |-> paramValues, log |-> <<>>],
                          paramId, value, vcsApi)} :
    /\ paramValues' = sent.paramValues
    /\ paramLog' = sent.log
    /\ calls' = [i \in 1..(Len(sent.log) \div 2) |-> "setParamValue"]
    /\ notes' = <<Note("call", "sendParam")>>
    /\ NoPass
    /\ SameSizing
    /\ UNCHANGED <<roster, activeSpeaker, participantIds, includePausedVideo,
                   maxVideoInputSlots, fixedVars, runVars, vcsState, vcsApi, listeners,
                   starting, starts, imageVars, observerVars>>

\* sendParams(params, mergeType)
SendParams(params, mergeType) ==
  \E sent \in {sendParams(paramValues, params, mergeType, vcsApi)} :
    /\ paramValues' = sent.paramValues
    /\ paramLog' = sent.log
    /\ calls' = [i \in 1..(Len(sent.log) \div 2) |-> "setParamValue"]
    /\ notes' = <<Note("call", "sendParams")>>
    /\ NoPass
    /\ SameSizing
    /\ UNCHANGED <<roster, activeSpeaker, participantIds, includePausedVideo,
                   maxVideoInputSlots, fixedVars, runVars, vcsState, vcsApi, listeners,
                   starting, starts, imageVars, observerVars>>

ParamNames == {"x", "y"}
ParamValues == {1, 2}
ParamEntry(id, value) == [id |-> id, value |-> value]

\* the maps callers pass as `params`
ParamBatches ==
  {NoParams,
   <<ParamEntry("x", 1)>>,
   <<ParamEntry("x", 2), ParamEntry("y", 1)>>,
   <<ParamEntry("y", 2), ParamEntry("x", 1)>>}

\* A renderer constructed with or without a default parameter, to which
\* parameters are sent before and after it is started.
InitParams ==
  /\ InitialRoster
  /\ NoDefaultAssets
  /\ NoApplication
  /\ \E params \in {NoParams, <<ParamEntry("x", 2)>>} :
       ConstructedOn(DefaultRoot, Undefined, params)
  /\ ConstructedFor(MAX_VIDEO_INPUT_SLOTS, TRUE, NoList)

NextParams ==
  \/ \E id \in ParamNames, value \in ParamValues : SendParam(id, value)
  \/ \E params \in ParamBatches, mergeType \in {"merge", "replace"} :
       SendParams(params, mergeType)
  \/ Start
  \/ StartResolved

SpecParams == InitParams /\ [][NextParams]_vars

\* ------------------------------------------------------------- sizing
\* The layout gives the root element another box, or reports the one it has;
\* a connected resize observer then runs rootDisplaySizeChanged.
RootResized(width, height) ==
  /\ observers > 0 \/ rootEl # Rect(width, height)
  /\ rootEl' = Rect(width, height)
  /\ IF observers > 0
     THEN /\ scaleFactor' = recomputeOutputScaleFactor(rootEl', viewportSize, scaleFactor)
          /\ calls' = IF vcsApi THEN <<"setScaleFactor">> ELSE <<>>
          /\ notes' = <<Note("call", "rootDisplaySizeChanged")>>
     ELSE /\ UNCHANGED scaleFactor
          /\ calls' = <<>>
          /\ notes' = <<>>
  /\ NoPass
  /\ NoParamSent
  /\ UNCHANGED <<aspectRatio, viewportSize>>
  /\ UNCHANGED <<roster, activeSpeaker, participantIds, includePausedVideo,
                 maxVideoInputSlots, fixedVars, runVars, vcsState, vcsApi, listeners,
                 starting, starts, imageVars, observerVars>>

\* the boxes the root element is laid out in: not laid out yet, landscape,
\* portrait
RootWidths == {Whole(0), Whole(640), Whole(1280)}
RootHeights == {Whole(0), Whole(720)}
\* the values callers pass as aspectRatio
AspectRatios == {Whole(0), Num(1, 2), Num(16, 9)}

\* A renderer constructed with or without opts.aspectRatio on a root element
\* that may not be laid out yet, then started, resized and given other ratios.
InitSizing ==
  /\ InitialRoster
  /\ NoDefaultAssets
  /\ NoApplication
  /\ \E width \in RootWidths, height \in RootHeights,
        ratio \in {Undefined} \cup AspectRatios :
       ConstructedOn(Rect(width, height), ratio, NoParams)
  /\ ConstructedFor(MAX_VIDEO_INPUT_SLOTS, TRUE, NoList)

NextSizing ==
  \/ \E width \in RootWidths, height \in RootHeights : RootResized(width, height)
  \/ \E ratio \in AspectRatios : UpdateAspectRatio(ratio, MaxRestarts)
  \/ StartCall(MaxRestarts)
  \/ StartResolved

SpecSizing == InitSizing /\ [][NextSizing]_vars

\* A started renderer whose call changes while images are loaded, a
\* parameter is sent and the root element is resized.
InitOwnership ==
  /\ InitialRoster
  /\ NoDefaultAssets
  /\ Constructed(MAX_VIDEO_INPUT_SLOTS, TRUE, NoList)

NextOwnership ==
  \/ Start
  \/ StartResolved
  \/ \E id \in Remotes :
       ParticipantJoined(id, "Ann", Entry("playable", 1), Entry("off", NoTrack))
  \/ \E id \in Remotes : ParticipantLeft(id)
  \/ \E images \in ImageBatches \ {NoImages} : UpdateImageSources(images, "merge")
  \/ \E i \in 1..MaxLoading, n \in Range(ImageNames) : ProbeLoaded(i, n)
  \/ SendParam("x", 1)
  \/ \E width \in {Whole(640), Whole(1280)} : RootResized(width, Whole(720))

SpecOwnership == InitOwnership /\ [][NextOwnership]_vars

\* -------------------------------------------- library functions alone
\* every field of the renderer and what its last action did
rendererVars ==
  <<roster, activeSpeaker, participantIds, includePausedVideo,
    maxVideoInputSlots, videoSlots, known, dom, activeVideoInputSlots,
    vcsState, vcsApi, listeners, starting, starts, startupSizes, outputSize,
    stopCalled, handleStopped, assetImages, loading,
    resizeObserver, observers, paramValues, defaultParams, rootEl, aspectRatio,
    viewportSize, scaleFactor, domOps, calls, peers, paramLog, notes>>

\* the boxes getBoundingClientRect() reports: no box, whole pixels, and a
\* width that layout left between two pixels
MeasuredWidths == {Whole(0), Whole(800), Num(1601, 2)}
MeasuredHeights == {Whole(0), Whole(600)}
\* the numbers callers pass as aspectRatio
Ratios == {Whole(0), NaN, Infinity, Num(1, 2), Num(4, 3), Num(3, 2)}

ViewportCalls ==
  {[fn |-> "calculateViewportSize", element |-> Rect(width, height),
    aspectRatio |-> ratio] :
     width \in MeasuredWidths, height \in MeasuredHeights, ratio \in Ratios}

TrackStateCalls == {[fn |-> "isTrackOff", state |-> state] : state \in TrackStates}

\* participants with and without their track entries, as a camera or a
\* screen-share input
ProjectionCalls ==
  {[fn |-> "createVideoInputObject",
    p |-> Participant("R1", name, cam, scr),
    dominant |-> dominant, trackName |-> trackName] :
     name \in UserNames,
     cam \in {NoEntry, Entry("playable", 1), Entry("off", NoTrack)},
     scr \in {NoEntry, Entry("playable", 1)},
     dominant \in BOOLEAN,
     trackName \in {"video", "screenVideo"}}

\* A library function is about to be called with arguments from the sets
\* above; the renderer is constructed and left alone.
InitLibrary ==
  /\ InitialRoster
  /\ NoDefaultAssets
  /\ ConstructedOn(DefaultRoot, Undefined, NoParams)
  /\ ConstructedFor(MAX_VIDEO_INPUT_SLOTS, TRUE, NoList)
  /\ \/ given \in ViewportCalls
     \/ given \in TrackStateCalls
     \/ given \in ProjectionCalls
  /\ returned = <<>>

CalculateViewportSize ==
  /\ given.fn = "calculateViewportSize"
  /\ returned = <<>>
  /\ returned' = <<calculateViewportSize(given.element, given.aspectRatio)>>
  /\ UNCHANGED <<given, rendererVars>>

IsTrackOff ==
  /\ given.fn = "isTrackOff"
  /\ returned = <<>>
  /\ returned' = <<isTrackOff(given.state)>>
  /\ UNCHANGED <<given, rendererVars>>

CreateVideoInputObject ==
  /\ given.fn = "createVideoInputObject"
  /\ returned = <<>>
  /\ returned' = <<createVideoInputObject(given.p, given.dominant, given.trackName)>>
  /\ UNCHANGED <<given, rendererVars>>

NextLibrary ==
  \/ CalculateViewportSize
  \/ IsTrackOff
  \/ CreateVideoInputObject

SpecLibrary == InitLibrary /\ [][NextLibrary]_vars

\* ---------------------------------------------------------------- claims
\* the last action ran handleParticipantsChange
PassRan == "setRoomPeerDescriptionsById" \in Range(calls)

\* the last action was one roster handler and nothing else
HandlerRan == PassRan /\ calls[Len(calls)] = "setRoomPeerDescriptionsById"

\* the candidate list of a pass over the current roster
Candidates == VideoInputs(roster, activeSpeaker, participantIds, includePausedVideo)

OpsOn(ops, op, id) == {k \in 1..Len(ops) : ops[k].op = op /\ ops[k].id = id}

ElementsTagged(d, id) == {k \in 1..Len(d) : d[k].vid = id}

\* C1: two passes in a row over the same candidate list: the second leaves
\* sources.videoSlots as the first left it, removes no element and makes none
\* of the calls of a change.
C1_Idempotent ==
  [][(/\ PassRan
      /\ HandlerRan'
      /\ roster' = roster
      /\ activeSpeaker' = activeSpeaker)
     => /\ videoSlots' = videoSlots
        /\ calls' = <<"setRoomPeerDescriptionsById">>
        /\ \A k \in 1..Len(domOps') : domOps'[k].op # "remove"]_vars

\* C2: a candidate whose id and track are those of a previous slot keeps that
\* slot's element, and no element is created or removed for the id.
C2_SurfaceReuse ==
  [][PassRan' =>
       \A c \in Range(Candidates') : \A i \in 1..Len(videoSlots) :
         (videoSlots[i].id = c.id /\ videoSlots[i].track = c.track)
         => /\ \E j \in 1..Len(videoSlots') :
                 /\ videoSlots'[j].id = c.id
                 /\ videoSlots'[j].element = videoSlots[i].element
            /\ OpsOn(domOps', "create", c.id) = {}
            /\ OpsOn(domOps', "remove", c.id) = {}]_vars

\* C3: a pass removes the element of id X only if X is not among the pass's
\* candidates.
C3_NoEarlyRemoval ==
  PassRan => \A k \in 1..Len(domOps) :
               domOps[k].op = "remove" => domOps[k].id \notin Ids(Candidates)

\* C4: a previous slot whose id is not among the candidates is gone from the
\* committed list after the pass and no element tagged with its id is left; an
\* element is removed only where one was, and once.
C4_TeardownOnRemoval ==
  [][PassRan' =>
       /\ \A ids \in {Ids(Candidates')} : \A i \in 1..Len(videoSlots) :
            videoSlots[i].id \notin ids
            => /\ videoSlots[i].id \notin Ids(videoSlots')
               /\ ElementsTagged(dom', videoSlots[i].id) = {}
               /\ Cardinality(OpsOn(domOps', "remove", videoSlots[i].id))
                    = Cardinality(ElementsTagged(dom, videoSlots[i].id))
       /\ \A k \in 1..Len(domOps') :
            domOps'[k].op = "remove"
            => /\ Cardinality(ElementsTagged(dom, domOps'[k].id)) = 1
               /\ Cardinality(OpsOn(domOps', "remove", domOps'[k].id)) = 1
               /\ ElementsTagged(dom', domOps'[k].id) = {}]_vars

\* a pass removed the element of a slot whose id had left the candidates
C4_Witness ==
  /\ PassRan
  /\ \E k \in 1..Len(domOps) :
       domOps[k].op = "remove" /\ domOps[k].id \notin Ids(Candidates)

\* C5: a candidate with a live track other than the track of the previous slot
\* of its id: the pass commits a slot of that id bound to the new track, on the
\* element the previous slot owned, creating and removing none.
C5_TrackChange ==
  [][PassRan' =>
       \A c \in Range(Candidates') : \A i \in 1..Len(videoSlots) :
         (videoSlots[i].id = c.id /\ c.track # NoTrack /\ c.track # videoSlots[i].track)
         => /\ \E j \in 1..Len(videoSlots') :
                 /\ videoSlots'[j].id = c.id
                 /\ videoSlots'[j].track = c.track
                 /\ videoSlots'[j].element = videoSlots[i].element
            /\ OpsOn(domOps', "create", c.id) = {}
            /\ OpsOn(domOps', "remove", c.id) = {}]_vars

\* C6: the local camera candidate carries a track other than its previous
\* slot's: the pass keeps a slot of the local id on the new track, creates and
\* removes no element for it, and the element tagged with the id, where there is
\* one, has the old track taken out of its stream and the new one put in.
C6_LocalDeviceSwitch ==
  [][PassRan' =>
       \A c \in Range(Candidates') : \A i \in 1..Len(videoSlots) :
         (/\ c.id = LocalSessionId
          /\ videoSlots[i].id = c.id
          /\ c.track # NoTrack
          /\ c.track # videoSlots[i].track)
         => /\ \E j \in 1..Len(videoSlots') :
                 /\ videoSlots'[j].id = c.id
                 /\ videoSlots'[j].track = c.track
                 /\ videoSlots'[j].element = videoSlots[i].element
            /\ OpsOn(domOps', "create", c.id) = {}
            /\ OpsOn(domOps', "remove", c.id) = {}
            /\ Cardinality(ElementsTagged(dom', c.id))
                 = Cardinality(ElementsTagged(dom, c.id))
            /\ \A k \in ElementsTagged(dom, c.id) :
                 \E m \in ElementsTagged(dom', c.id) :
                   /\ dom'[m].el = dom[k].el
                   /\ c.track \in dom'[m].srcObject
                   /\ videoSlots[i].track \notin dom'[m].srcObject
                   /\ dom'[m].srcObject \ {c.track}
                        = dom[k].srcObject \ {videoSlots[i].track}]_vars

\* the last pass rebound the local participant's element, which now streams
\* the track of the local slot
C6_Witness ==
  /\ PassRan
  /\ OpsOn(domOps, "rebind", LocalSessionId) # {}
  /\ \E j \in 1..Len(videoSlots) : \E k \in 1..Len(dom) :
       /\ videoSlots[j].id = LocalSessionId
       /\ dom[k].vid = LocalSessionId
       /\ dom[k].el = videoSlots[j].element
       /\ dom[k].srcObject = {videoSlots[j].track}

\* C7: with includePausedVideo on, a camera candidate without a track whose id
\* is in the known set has a paused slot in the list the pass commits, and a
\* screen-share candidate without a track has none.
C7_PausedPlaceholder ==
  [][(PassRan' /\ includePausedVideo) =>
       \A c \in Range(Candidates') :
         /\ (c.type = "camera" /\ c.track = NoTrack /\ c.id \in known)
            => \E j \in 1..Len(videoSlots') :
                 videoSlots'[j].id = c.id /\ videoSlots'[j].paused
         /\ (c.type = "screenshare" /\ c.track = NoTrack)
            => c.id \notin Ids(videoSlots')]_vars

\* the list applyTracks builds from the candidates vs against the slots ss
NewSlotsOf(vs, ss, kn, d, includePaused) ==
  ApplyLoop([newSlots |-> <<>>, known |-> kn, dom |-> d, domOps |-> <<>>],
            vs, 1, ss, includePaused).newSlots

SameAtEveryPosition(a, b) ==
  /\ Len(a) = Len(b)
  /\ \A i \in 1..Len(a) :
       /\ a[i].id = b[i].id
       /\ a[i].paused = b[i].paused
       /\ a[i].dominant = b[i].dominant
       /\ a[i].displayName = b[i].displayName
       /\ a[i].track = b[i].track

ChangeCalls == {"updateImageSources", "setActiveVideoInputSlots", "setScaleFactor"}

\* C8: a roster handler whose new slot list agrees with the previous one in
\* length and, position by position, in id, paused, dominant, displayName and
\* track leaves sources.videoSlots alone and makes none of the three calls;
\* otherwise it commits the new list and makes all three.
C8_PropagateOnChange ==
  [][HandlerRan' =>
       \A new \in {NewSlotsOf(Candidates', videoSlots, known, dom, includePausedVideo)} :
         IF SameAtEveryPosition(new, videoSlots)
         THEN /\ videoSlots' = videoSlots
              /\ Range(calls') \cap ChangeCalls = {}
         ELSE /\ videoSlots' = new
              /\ ChangeCalls \subseteq Range(calls')]_vars

\* a handler that found the same two slots again and called nothing but the
\* peer descriptions
C8_Witness ==
  /\ HandlerRan
  /\ Len(videoSlots) >= 2
  /\ calls = <<"setRoomPeerDescriptionsById">>

\* the entry of the active-slot array for a committed slot
Projection(slot) ==
  [active |-> TRUE, id |-> slot.id, type |-> slot.type,
   displayName |-> IF slot.type = "screenshare" THEN "" ELSE slot.displayName,
   paused |-> slot.paused, dominant |-> slot.dominant]

\* C9: the active-slot array has maxVideoInputSlots positions, the first of
\* them holding the committed slots in order and the rest the empty marker, as
\* constructed and as sent to setActiveVideoInputSlots.
C9_ArrayHasCapacity ==
  /\ Len(activeVideoInputSlots) = maxVideoInputSlots
  /\ \A i \in 1..maxVideoInputSlots :
       activeVideoInputSlots[i] =
         IF i <= Len(videoSlots) THEN Projection(videoSlots[i]) ELSE EmptyMarker

\* C10: after a pass every position of the active-slot array holds the
\* projection of the committed slot at that position, or the empty marker
\* where the slot list has ended.
C10_ArrayMirrorsSlots ==
  PassRan =>
    \A i \in 1..Len(activeVideoInputSlots) :
      activeVideoInputSlots[i] =
        IF i <= Len(videoSlots) THEN Projection(videoSlots[i]) ELSE EmptyMarker

\* C11: the candidate list a pass hands to applyTracks holds no id twice,
\* whatever the roster and the allow-list, an allow-list naming a participant
\* twice included; the camera and the screen share of one participant differ in
\* id.
C11_UniqueCandidateIds ==
  PassRan =>
    \A i, j \in 1..Len(Candidates) :
      i # j => Candidates[i].id # Candidates[j].id

\* the console errors of a failed probe
LoadFailures == {"Image load failed, asset " \o n : n \in Range(ImageNames)}

\* the last action was a probe failing
ProbeFailure ==
  \E k \in 1..Len(notes) : notes[k].kind = "console.error" /\ notes[k].arg \in LoadFailures

\* C12: the step in which a probe of a call fails leaves sources.assetImages as
\* it was and calls no updateImageSources on the renderer; and no step in which
\* no call settles changes sources.assetImages.
C12_NoPartialCommit ==
  [][/\ ProbeFailure' => /\ assetImages' = assetImages
                          /\ "updateImageSources" \notin Range(calls')
     /\ Len(loading') >= Len(loading) => assetImages' = assetImages]_vars

\* a probe failed on a renderer that had images committed
C12_Witness ==
  /\ ProbeFailure
  /\ assetImages # NoImages
  /\ vcsApi

\* C13: when a probe of a call fails, the promise updateImageSources returned
\* is rejected.
C13_FailureRejects ==
  [][ProbeFailure' => Note("rejected", "updateImageSources") \in Range(notes')]_vars

\* C14: a call with a mergeType other than merge and replace issues no probe,
\* and when it ends it has reported the invalid mergeType, left
\* sources.assetImages alone and called nothing on the renderer.
C14_InvalidModeRejected ==
  [][/\ (/\ Len(loading') > Len(loading)
         /\ loading'[Len(loading')].mergeType \notin {"merge", "replace"})
        => \A k \in 1..Len(notes') : notes'[k].kind # "probe"
     /\ \A i \in 1..Len(loading) :
          (/\ loading' = RemoveAt(loading, i)
           /\ loading[i].mergeType \notin {"merge", "replace"})
          => /\ Note("console.error", "Invalid mergeType") \in Range(notes')
             /\ assetImages' = assetImages
             /\ calls' = <<>>]_vars

\* C15: a call all of whose probes loaded commits, in merge mode, the previous
\* map overridden by the map it was given and, in replace mode, the map it was
\* given; the renderer's updateImageSources is then called once if there is a
\* renderer handle.
C15_MergeAndReplace ==
  [][\A i \in 1..Len(loading) :
       (/\ loading' = RemoveAt(loading, i)
        /\ ~ProbeFailure'
        /\ loading[i].mergeType \in {"merge", "replace"})
       => /\ assetImages' = IF loading[i].mergeType = "merge"
                             THEN Spread(assetImages, loading[i].images)
                             ELSE loading[i].images
          /\ calls' = IF vcsApi THEN <<"updateImageSources">> ELSE <<>>]_vars

\* the notes of kind `kind` among ns
NotesOf(ns, kind) == {k \in 1..Len(ns) : ns[k].kind = kind}

\* the last action was the operation `name` called on the renderer object
Called(ns, name) == ns # <<>> /\ ns[1] = Note("call", name)

\* the last action called the renderer's startup
StartupCalled(ns) == Note("comp", "startDOMOutputAsync") \in Range(ns)

LifecycleTransitions ==
  {<<"idle", "started">>, <<"started", "stopped">>, <<"started", "error">>,
   <<"error", "stopped">>, <<"stopped", "started">>}

\* C16: vcsState changes only from idle to started, from started to stopped or
\* to error, from error to stopped and from stopped to started.
C16_LifecycleTransitions ==
  [][vcsState' # vcsState => <<vcsState, vcsState'>> \in LifecycleTransitions]_vars

\* C17: when the renderer calls the error callback with e, vcsState becomes
\* error and onError is invoked once, with e, and no startup is called; in the
\* error state the renderer's startup is called only by a start() of the
\* caller.
C17_ErrorState ==
  [][/\ NotesOf(notes', "onError") # {}
        => /\ vcsState' = "error"
           /\ Cardinality(NotesOf(notes', "onError")) = 1
           /\ \E e \in Errors :
                /\ Note("onError", e) \in Range(notes')
                /\ Note("console.error", "VCS composition error: " \o e)
                     \in Range(notes')
           /\ ~StartupCalled(notes')
           /\ starting' = starting
     /\ (vcsState = "error" /\ StartupCalled(notes')) => Called(notes', "start")]_vars

\* the renderer reported an error while started
C17_Witness ==
  /\ vcsState = "error"
  /\ NotesOf(notes, "onError") # {}
  /\ vcsApi

\* C18: stop() in the state started or error sets vcsState to stopped, calls
\* stop() on the renderer handle once, invokes onStop once and disconnects the
\* resize observer the renderer holds; stop() without a renderer handle changes
\* nothing and invokes no notification.
C18_Stop ==
  [][Called(notes', "stop") =>
       /\ vcsState \in {"started", "error"}
            => /\ vcsState' = "stopped"
               /\ calls' = <<"stop">>
               /\ notes' = <<Note("call", "stop"), Note("callback", "onStop")>>
               /\ ~resizeObserver'
               /\ observers' = IF resizeObserver THEN observers - 1 ELSE observers
       /\ ~vcsApi
            => /\ calls' = <<>>
               /\ notes' = <<Note("call", "stop")>>
               /\ UNCHANGED <<roster, activeSpeaker, participantIds,
                              includePausedVideo, maxVideoInputSlots, videoSlots,
                              known, dom, activeVideoInputSlots, vcsState, vcsApi,
                              listeners, starting, starts, assetImages, loading,
                              resizeObserver, observers>>]_vars

\* stop() stopped a renderer showing a remote participant and disconnected
\* its observer
C18_Witness ==
  /\ Called(notes, "stop")
  /\ vcsState = "stopped"
  /\ calls = <<"stop">>
  /\ observers = 0
  /\ videoSlots # <<>>

\* C19: when the renderer's startup has resolved, vcsState is started, one pass
\* has run, the handle has been sent the active-slot array, which mirrors the
\* committed slot list, and the scale factor, and onStart has been invoked once.
C19_StartupSequence ==
  Note("callback", "onStart") \in Range(notes) =>
    /\ vcsState = "started"
    /\ Cardinality({k \in 1..Len(calls) : calls[k] = "setRoomPeerDescriptionsById"}) = 1
    /\ \E k \in 1..Len(calls) :
         /\ calls[k] = "setActiveVideoInputSlots"
         /\ \A j \in 1..Len(calls) : calls[j] = "setRoomPeerDescriptionsById" => j < k
    /\ \A i \in 1..Len(activeVideoInputSlots) :
         activeVideoInputSlots[i] =
           IF i <= Len(videoSlots) THEN Projection(videoSlots[i]) ELSE EmptyMarker
    /\ "setScaleFactor" \in Range(calls)
    /\ Cardinality(NotesOf(notes, "callback")) = 1

\* C20: while a startup of the renderer is awaited no pass runs, but the pass
\* start() runs when a startup resolves.
C20_NoPassDuringStartup ==
  [][(starting > 0 /\ PassRan') => starting' < starting]_vars

\* ------------------------------------------------------------ parameters
\* the notifications and the renderer calls of the last action
Notified(log) == SelectSeq(log, LAMBDA e : e.op = "onParamsChanged")
ParamCalls(log) == SelectSeq(log, LAMBDA e : e.op = "setParamValue")

\* a parameter map as the set of its entries
AsMap(m) == {<<m[i].id, m[i].value>> : i \in 1..Len(m)}
\* a overridden by b
Overridden(a, b) == {e \in AsMap(a) : e[1] \notin ParamIds(b)} \cup AsMap(b)

\* C21: every onParamsChanged notification is handed a map that, when the
\* notification is invoked, holds the parameter just sent with its new value
\* and every parameter recorded before the call.
C21_NotifiedMapHasValue ==
  [][\A i \in 1..Len(paramLog') :
       paramLog'[i].op = "onParamsChanged" /\ Called(notes', "sendParam")
         => /\ <<paramLog'[i].id, paramLog'[i].value>> \in AsMap(paramLog'[i].params)
            /\ \A id \in ParamIds(paramValues) \ {paramLog'[i].id} :
                 <<id, ParamOf(paramValues, id)>> \in AsMap(paramLog'[i].params)]_vars

\* what sendParams(params, mergeType) leaves behind
SentParams(params, mergeType) ==
  /\ AsMap(paramValues') = (IF mergeType = "replace" THEN AsMap(params)
                            ELSE Overridden(paramValues, params))
  /\ vcsApi =>
       /\ Len(ParamCalls(paramLog')) = Len(params)
       /\ Len(Notified(paramLog')) = Len(params)
       /\ \A k \in 1..Len(params) :
            /\ Len(SelectSeq(ParamCalls(paramLog'),
                             LAMBDA e : e.id = params[k].id
                                          /\ e.value = params[k].value)) = 1
            /\ Len(SelectSeq(Notified(paramLog'),
                             LAMBDA e : e.id = params[k].id)) = 1

\* C22: sendParams in merge mode leaves the accumulated map as the previous
\* one overridden by the parameters sent, in replace mode as exactly the
\* parameters sent; with a renderer handle each parameter sent is set once on
\* the renderer and notified once.
C22_SendParams ==
  [][\A params \in ParamBatches, mergeType \in {"merge", "replace"} :
       SendParams(params, mergeType) => SentParams(params, mergeType)]_vars

\* two parameters were sent at once to a renderer handle, which was told of
\* each, and both were notified
C22_Witness ==
  /\ Called(notes, "sendParams")
  /\ Len(Notified(paramLog)) = 2
  /\ AsMap(paramValues) = {<<"x", 2>>, <<"y", 1>>}
  /\ Len(paramValues) = 2 /\ paramValues[1].id = "x"

\* ------------------------------------------------------------ allow-list
\* what updateParticipantIds(ids, mergeType) leaves behind
AllowListUpdated(ids, mergeType) ==
  /\ participantIds'.isArray
  /\ IF mergeType = "merge"
     THEN /\ Range(participantIds'.ids) = Range(participantIds.ids) \cup Range(ids)
          /\ Cardinality(Range(participantIds'.ids)) = Len(participantIds'.ids)
     ELSE participantIds'.ids = ids
  /\ PassRan' <=> vcsState = "started"

EmptyAllowList == participantIds.isArray /\ participantIds.ids = <<>>

\* C24: a pass that runs while the allow-list is the empty array takes its
\* candidates and its peers from every participant of the roster, as a pass
\* without an allow-list does.
C24_EmptyAllowListIsNoFilter ==
  (PassRan /\ EmptyAllowList)
    => /\ Candidates = VideoInputs(roster, activeSpeaker, NoList, includePausedVideo)
       /\ peers = PeerKeys(roster, NoList)

\* --------------------------------------------------- peer descriptions
\* the step runs handleParticipantsChange: start() after its await, a roster
\* event with a handler registered, or an allow-list update while started
PassStep ==
  \/ StartResolved
  \/ listeners > 0 /\ Deliver(roster', activeSpeaker')
  \/ /\ vcsState = "started"
     /\ notes' = <<Note("call", "updateParticipantIds")>>

PeerCalls(cs) == SelectSeq(cs, LAMBDA c : c = "setRoomPeerDescriptionsById")

\* C25: every run of handleParticipantsChange calls setRoomPeerDescriptionsById
\* once, with a map keyed by exactly the session ids of the participants the
\* allow-list lets through in that run.
C25_PeersEveryPass ==
  [][PassStep =>
       /\ Len(PeerCalls(calls')) = 1
       /\ Len(peers') = Cardinality(Range(peers'))
       /\ Range(peers') =
            {q.session_id : q \in Range(filteredParticipants(roster', participantIds'))}]_vars

\* a roster event ran a pass that changed no slot and told the renderer of the
\* one participant the allow-list lets through
C25_Witness ==
  /\ calls = <<"setRoomPeerDescriptionsById">>
  /\ notes = <<>>
  /\ Len(roster) = 2
  /\ participantIds.isArray
  /\ peers = <<"R1">>

\* --------------------------------------------------------------- sizing
\* the step runs recomputeOutputScaleFactor: start() after its await, or the
\* resize observer's callback
Recomputes ==
  \/ StartResolved
  \/ notes' = <<Note("call", "rootDisplaySizeChanged")>>

\* the scale factor the step commits, for the root element's display size
ScaleCommitted ==
  LET displayW == clientWidth(rootEl')
      displayH == clientHeight(rootEl')
  IN IF displayW = Whole(0) \/ displayH = Whole(0)
     THEN scaleFactor' = scaleFactor
     ELSE scaleFactor' = (IF Ge(Div(viewportSize.w, viewportSize.h), Whole(1))
                          THEN Div(displayW, viewportSize.w)
                          ELSE Div(displayH, viewportSize.h))

\* C28: recomputeOutputScaleFactor leaves the scale factor as it was while the
\* root element's display width or height is zero; otherwise it commits display
\* width / viewport width for a landscape viewport and display height /
\* viewport height for a portrait one, never zero and never infinite.
C28_ScaleFactor ==
  [][Recomputes =>
       /\ ScaleCommitted
       /\ (clientWidth(rootEl') # Whole(0) /\ clientHeight(rootEl') # Whole(0))
            => IsFinite(scaleFactor') /\ scaleFactor' # Whole(0)]_vars

\* the part of C28 that holds: what is committed, whatever its value
C28_ScaleFormula == [][Recomputes => ScaleCommitted]_vars

\* ------------------------------------------------------ library functions
\* the library function fn was called and returned
Returned(fn) == given.fn = fn /\ returned # <<>>

\* the container is laid out and the ratio is a positive finite number
ProperSizing ==
  /\ Gt(given.element.width, Whole(0))
  /\ Gt(given.element.height, Whole(0))
  /\ IsFinite(given.aspectRatio) /\ Gt(given.aspectRatio, Whole(0))

\* what C26 gives for a container W x H and a ratio r
FittedSize(W, H, r) ==
  IF Gt(Div(W, H), r) THEN Size(Floor(Mul(H, r)), H)
  ELSE Size(W, Floor(Div(W, r)))

\* C26: for a laid-out container W x H and a positive finite ratio r,
\* calculateViewportSize returns (floor(H*r), H) when W/H > r and
\* (W, floor(W/r)) otherwise; the result is inside the container and both its
\* sides are integers; 800 x 600 at 1.5 gives 800 x 533.
C26_ViewportFits ==
  (Returned("calculateViewportSize") /\ ProperSizing)
    => /\ returned[1] = FittedSize(given.element.width, given.element.height,
                                   given.aspectRatio)
       /\ Le(returned[1].w, given.element.width)
       /\ Le(returned[1].h, given.element.height)
       /\ IsInteger(returned[1].w) /\ IsInteger(returned[1].h)
       /\ (given.element = Rect(Whole(800), Whole(600))
             /\ given.aspectRatio = Num(3, 2))
            => returned[1] = Size(Whole(800), Whole(533))

\* the part of C26 that holds for every container: the formula and the fit
C26_FormulaAndFit ==
  (Returned("calculateViewportSize") /\ ProperSizing)
    => /\ returned[1] = FittedSize(given.element.width, given.element.height,
                                   given.aspectRatio)
       /\ Le(returned[1].w, given.element.width)
       /\ Le(returned[1].h, given.element.height)
       /\ (IsInteger(given.element.width) /\ IsInteger(given.element.height))
            => IsInteger(returned[1].w) /\ IsInteger(returned[1].h)
       /\ (given.element = Rect(Whole(800), Whole(600))
             /\ given.aspectRatio = Num(3, 2))
            => returned[1] = Size(Whole(800), Whole(533))

\* C27: calculateViewportSize returns {w: 0, h: 0} when the ratio is zero, NaN
\* or infinite, and when the container's measured width or height is zero.
C27_DegenerateIsZero ==
  (Returned("calculateViewportSize")
     /\ \/ given.aspectRatio \in {Whole(0), NaN, Infinity}
        \/ given.element.width = Whole(0)
        \/ given.element.height = Whole(0))
    => returned[1] = Size(Whole(0), Whole(0))

\* the part of C27 that holds: every degenerate input but an infinite ratio
C27_ZeroButInfinite ==
  (Returned("calculateViewportSize")
     /\ given.aspectRatio # Infinity
     /\ \/ given.aspectRatio \in {Whole(0), NaN}
        \/ given.element.width = Whole(0)
        \/ given.element.height = Whole(0))
    => returned[1] = Size(Whole(0), Whole(0))

\* C29: isTrackOff returns true for the states off and blocked and false for
\* sendable, loading, interrupted and playable.
C29_TrackStateClassifier ==
  Returned("isTrackOff")
    => /\ given.state \in {"off", "blocked"} => returned = <<TRUE>>
       /\ given.state \in {"sendable", "loading", "interrupted", "playable"}
            => returned = <<FALSE>>

\* isTrackOff was called on a blocked track and returned true
C29_Witness ==
  /\ Returned("isTrackOff")
  /\ given.state = "blocked"
  /\ returned = <<TRUE>>

\* C30: for a participant without the selected track entry
\* createVideoInputObject returns a descriptor with no track and paused = true;
\* a camera input without a user name is named Guest and a screen-share input
\* has an empty name.
C30_ProjectionDefaults ==
  Returned("createVideoInputObject")
    => /\ TrackOf(given.p, given.trackName) = NoEntry
            => returned[1].track = NoTrack /\ returned[1].paused
       /\ (given.trackName = "video" /\ given.p.user_name = "")
            => returned[1].displayName = "Guest"
       /\ given.trackName = "screenVideo" => returned[1].displayName = ""

\* the part of C30 that holds: no track, and the names
C30_TrackAndNames ==
  Returned("createVideoInputObject")
    => /\ TrackOf(given.p, given.trackName) = NoEntry
            => returned[1].track = NoTrack
       /\ (given.trackName = "video" /\ given.p.user_name = "")
            => returned[1].displayName = "Guest"
       /\ given.trackName = "screenVideo" => returned[1].displayName = ""

\* ------------------------------------------------- slots and surfaces
\* C31: after a pass every committed slot with a track has exactly one element
\* in the root tagged with its id, and every tagged element in the root
\* belongs to a committed slot of that id.
C31_SurfacesMatchSlots ==
  PassRan =>
    /\ \A i \in 1..Len(videoSlots) :
         videoSlots[i].track # NoTrack
           => Cardinality(ElementsTagged(dom, videoSlots[i].id)) = 1
    /\ \A k \in 1..Len(dom) : dom[k].vid \in Ids(videoSlots)

\* the part of C31 that holds: no orphaned and no duplicate surface
C31_NoOrphanNoDuplicate ==
  PassRan =>
    /\ \A i \in 1..Len(videoSlots) :
         Cardinality(ElementsTagged(dom, videoSlots[i].id)) <= 1
    /\ \A k \in 1..Len(dom) : dom[k].vid \in Ids(videoSlots)

\* C32: after a pass every committed slot has the dominant, paused and
\* displayName of the candidate of its id in that pass.
C32_SlotsReflectCandidates ==
  PassRan =>
    \A i \in 1..Len(videoSlots) : \A c \in Range(Candidates) :
      c.id = videoSlots[i].id
        => /\ videoSlots[i].dominant = c.dominant
           /\ videoSlots[i].paused = c.paused
           /\ videoSlots[i].displayName = c.displayName

\* the part of C32 that holds: the slots of every id but the local camera's
C32_OtherSlotsReflectCandidates ==
  PassRan =>
    \A i \in 1..Len(videoSlots) : \A c \in Range(Candidates) :
      (c.id = videoSlots[i].id /\ c.id # LocalSessionId)
        => /\ videoSlots[i].dominant = c.dominant
           /\ videoSlots[i].paused = c.paused
           /\ videoSlots[i].displayName = c.displayName

\* the ids makeVideoIdForVcs gives screen shares
ScreenshareIds == {makeVideoIdForVcs([session_id |-> id], TRUE) : id \in SessionIds}

\* the committed slots without a track
Placeholders(slots) == {i \in 1..Len(slots) : slots[i].track = NoTrack}

\* C33: a committed slot without a track is a camera slot whose id is in the
\* known set, and was there before the pass unless the slot was carried over;
\* the known set only grows, by camera ids that get a slot, and holds no
\* screen-share id.
C33_PlaceholdersAreKnownCameras ==
  [][/\ \A i \in Placeholders(videoSlots') :
          /\ videoSlots'[i].type = "camera"
          /\ videoSlots'[i].id \in known'
          /\ videoSlots'[i].id \in known \cup Ids(videoSlots)
     /\ known \subseteq known'
     /\ known' \ known \subseteq Ids(videoSlots')
     /\ known' \cap ScreenshareIds = {}]_vars

\* a pass committed the paused placeholder of a remote camera that was shown
\* before, while that participant's screen share without a track got no slot
C33_Witness ==
  /\ PassRan
  /\ \E i \in Placeholders(videoSlots) :
       /\ videoSlots[i].id = "R1"
       /\ videoSlots[i].paused
  /\ \E c \in Range(Candidates) : c.type = "screenshare" /\ c.track = NoTrack
  /\ Ids(videoSlots) \cap ScreenshareIds = {}

\* -------------------------------------------------- event subscriptions
\* the step is a roster or active-speaker event of the call object
RosterEvent == Deliver(roster', activeSpeaker')

\* C34: a roster or active-speaker event that arrives after stop() returned
\* runs no pass and calls nothing on the renderer; one that arrives while the
\* renderer is started runs the pass of one registered handler, however often
\* the renderer was stopped and started before.
C34_SubscriptionsFollowLifecycle ==
  [][RosterEvent =>
       /\ (vcsState = "stopped" /\ starting = 0) => (~PassRan' /\ calls' = <<>>)
       /\ vcsState = "started" => (PassRan' /\ listeners = 1)]_vars

\* the part of C34 that holds: up to the first stop() a started renderer has
\* one handler per event, and an event runs its pass
C34_FirstRunOneHandler ==
  [][(RosterEvent /\ vcsState = "started" /\ starts = 1) =>
       (PassRan' /\ listeners = 1)]_vars

\* ------------------------------------------------------ parameter replay
\* the renderer handle was told in the last step that parameter id has value
ParamSet(log, id, value) ==
  \E i \in 1..Len(log) :
    log[i].op = "setParamValue" /\ log[i].id = id /\ log[i].value = value

\* sendParam(id, value) without a renderer handle records and tells nobody
RecordedOnly ==
  \A id \in ParamNames, value \in ParamValues :
    (SendParam(id, value) /\ ~vcsApi)
      => /\ HasParam(paramValues', id) /\ ParamOf(paramValues', id) = value
         /\ paramLog' = <<>>
         /\ calls' = <<>>

\* C35: start() sets on the renderer handle every recorded parameter with the
\* value last sent for it, a key of defaultParams included; sendParam without a
\* renderer handle records the value and calls neither the renderer nor
\* onParamsChanged.
C35_ReplayLatestValues ==
  [][/\ StartResolved =>
          \A k \in ParamIds(paramValues) :
            /\ ParamSet(paramLog', k, ParamOf(paramValues, k))
            /\ ~\E v \in ParamValues \ {ParamOf(paramValues, k)} : ParamSet(paramLog', k, v)
     /\ RecordedOnly]_vars

\* the part of C35 that holds: the recorded parameters defaultParams does not
\* name, and recording without a handle
C35_ReplayButDefaults ==
  [][/\ StartResolved =>
          \A k \in ParamIds(paramValues) \ ParamIds(defaultParams) :
            ParamSet(paramLog', k, ParamOf(paramValues, k))
     /\ RecordedOnly]_vars

\* the call loading[i] settles in this step with all its probes loaded
Settles(i) ==
  /\ i \in 1..Len(loading)
  /\ loading' = RemoveAt(loading, i)
  /\ Note("resolved", "updateImageSources") \in Range(notes')
  /\ \A k \in 1..Len(notes') : notes'[k].kind # "console.error"

\* C38: when a merge call settles with all its probes loaded, while another
\* merge call is still loading or after it settled, the committed map keeps
\* every key it had, with its value unless the batch names the key, and holds
\* every key of the batch with the image loaded for it: of two overlapping
\* merges nothing is lost, and a key of both has the value of the batch that
\* settled last.
C38_OverlappingMerges ==
  [][\A i \in 1..Len(loading) :
       (Settles(i) /\ loading[i].mergeType = "merge")
       => /\ DOMAIN assetImages' = DOMAIN assetImages \cup DOMAIN loading[i].images
          /\ \A n \in DOMAIN loading[i].images :
               assetImages'[n] = ImageOf(loading[i].images[n].src)
          /\ \A n \in DOMAIN assetImages \ DOMAIN loading[i].images :
               assetImages'[n] = assetImages[n]]_vars

\* a merge call settled while a second merge call, one of whose probes had
\* loaded, was still loading, and the map holds a key of an earlier batch next
\* to the value of the batch that settled
C38_Witness ==
  /\ Len(loading) = 1
  /\ loading[1].mergeType = "merge"
  /\ loading[1].loaded # {}
  /\ notes = <<Note("resolved", "updateImageSources")>>
  /\ DOMAIN assetImages = {"a", "b"}
  /\ assetImages["a"] = ImageOf("u1")
  /\ assetImages["b"] = ImageOf("u1")

\* C36: when stop() was called after a start() and no start() was called
\* since, and no startup is awaited any more, vcsState is not started and
\* stop() was called on the renderer handle the startup produced.
C36_StopNeverLost ==
  (starts > 0 /\ stopCalled /\ starting = 0)
  => /\ vcsState # "started"
     /\ vcsApi => handleStopped

\* a stop() called when the renderer handle exists stops that handle and
\* leaves vcsState stopped
C36_StopOfHandle ==
  [][(Called(notes', "stop") /\ vcsApi)
     => /\ vcsState' = "stopped"
        /\ calls' = <<"stop">>
        /\ handleStopped']_vars

\* C37: whenever vcsState is started and no startup is awaited, the viewport
\* size the renderer handle was started with is the current viewportSize.
C37_OutputIsViewport ==
  (vcsState = "started" /\ starting = 0) => outputSize = viewportSize

\* every startup is called with the viewportSize of that moment, the one
\* updateAspectRatio has just computed included
C37_StartupGetsViewport ==
  [][StartupCalled(notes')
     => /\ Len(startupSizes') = Len(startupSizes) + 1
        /\ startupSizes'[Len(startupSizes')] = viewportSize']_vars

\* the renderer's startup rejected in the last step
StartupRejected == Note("rejected", "start") \in Range(notes)

\* C39: when the renderer's startup rejects, start() rejects to its caller and
\* nothing else happens: vcsState, the subscriptions, the committed slot list
\* and the image map stay as they were, no pass runs, nothing is called on a
\* renderer handle and onStart is not invoked.
C39_FailedStartupChangesNothing ==
  [][StartupRejected'
     => /\ vcsState' = vcsState
        /\ vcsApi' = vcsApi
        /\ listeners' = listeners
        /\ observers' = observers
        /\ ~PassRan'
        /\ calls' = <<>>
        /\ Note("callback", "onStart") \notin Range(notes')
        /\ videoSlots' = videoSlots
        /\ assetImages' = assetImages
        /\ starting' = starting - 1]_vars

\* the startup of a restart rejected: the renderer stays stopped
C39_Witness ==
  /\ StartupRejected
  /\ vcsState = "stopped"
  /\ starting = 0
  /\ starts = 2

\* a pass ran in the last step, and not as part of start()
PassAlone == PassRan /\ Note("callback", "onStart") \notin Range(notes)

\* updateImageSources was called, or one of its probes loaded, in this step
ImageStep == loading' # loading

\* the last step was a resize notification
ResizeNotified == Called(notes, "rootDisplaySizeChanged")

\* C40: a reconciliation pass changes neither sources.assetImages nor the
\* recorded parameters nor vcsState; updateImageSources changes neither
\* sources.videoSlots nor the known ids nor the active-slot array; and a
\* resize notification changes no field of the renderer but scaleFactor.
C40_StateOwnership ==
  [][/\ PassAlone' => UNCHANGED <<assetImages, loading, paramValues, vcsState>>
     /\ ImageStep => UNCHANGED <<videoSlots, known, activeVideoInputSlots, dom>>
     /\ ResizeNotified'
        => UNCHANGED <<videoSlots, known, activeVideoInputSlots, dom, assetImages,
                       loading, paramValues, vcsState, vcsApi, listeners,
                       participantIds, aspectRatio, viewportSize, observerVars,
                       runVars, starting, starts>>]_vars

\* a pass has just committed slots next to a committed image, a recorded
\* parameter and a scale factor that a resize set
C40_Witness ==
  /\ PassAlone
  /\ videoSlots # <<>>
  /\ known # {}
  /\ DOMAIN assetImages # {}
  /\ paramValues # NoParams
  /\ scaleFactor = Num(1, 2)

====
